---- MODULE Spec2Model ----
(***************************************************************************)
(* Event store of linkkibot (db_services.py): save_event_if_new,           *)
(* get_events_end and ensure_tables, run by independent processes, each    *)
(* on its own PostgreSQL connection and transaction.                       *)
(*                                                                         *)
(* Text is a sequence of one-character strings, so that the regular        *)
(* expressions and the casts of the query are computed on the characters.  *)
(* Time is counted in minutes since 2000-01-01T00:00 UTC; the session      *)
(* time zone is UTC.                                                       *)
(***************************************************************************)
EXTENDS Integers, Sequences, FiniteSets, Bags, TLC

(***************************************************************************)
(* Bounds of the model.                                                    *)
(***************************************************************************)
MaxCalls == 2
MaxSerialCalls == 3
MaxTicks == 1
MaxRuns == 2

Procs == {"p1", "p2"}

None == [t |-> "null"]
NoRow == [none |-> TRUE]

(***************************************************************************)
(* JSON values and text.                                                   *)
(***************************************************************************)
JStr(chars) == [t |-> "str", s |-> chars]
JInt(n) == [t |-> "int", n |-> n]
JBool(b) == [t |-> "bool", b |-> b]
\* a nested dict: its items in insertion order
JDict(items) == [t |-> "dict", items |-> items]

Digits == <<"0", "1", "2", "3", "4", "5", "6", "7", "8", "9">>

IsDigit(c) == \E i \in 1..10 : Digits[i] = c

DigitVal(c) == (CHOOSE i \in 1..10 : Digits[i] = c) - 1

RECURSIVE NatToText(_)
NatToText(n) ==
    IF n < 10 THEN <<Digits[n + 1]>>
    ELSE NatToText(n \div 10) \o <<Digits[(n % 10) + 1]>>

\* bool(v) of Python for the value kinds of the model
Truthy(v) ==
    CASE v.t = "null" -> FALSE
      [] v.t = "str" -> Len(v.s) > 0
      [] v.t = "int" -> v.n # 0
      [] v.t = "bool" -> v.b
      [] v.t = "dict" -> Len(v.items) > 0

\* variant: repr(v), which shows a text in quotes
PyRepr(v) ==
    CASE v.t = "str" -> <<"'">> \o v.s \o <<"'">>
      [] v.t = "int" -> IF v.n < 0 THEN <<"-">> \o NatToText(-v.n) ELSE NatToText(v.n)
      [] v.t = "bool" -> IF v.b THEN <<"T", "r", "u", "e">> ELSE <<"F", "a", "l", "s", "e">>
      [] v.t = "null" -> <<"N", "o", "n", "e">>

\* str(v) of Python, for the scalar value kinds
PyStr(v) ==
    CASE v.t = "str" -> v.s
      [] v.t = "int" -> IF v.n < 0 THEN <<"-">> \o NatToText(-v.n) ELSE NatToText(v.n)
      [] v.t = "bool" -> IF v.b THEN <<"T", "r", "u", "e">> ELSE <<"F", "a", "l", "s", "e">>
      [] v.t = "null" -> <<"N", "o", "n", "e">>

(***************************************************************************)
(* An event record is a Python dict: a sequence of key/value items in      *)
(* insertion order, with distinct keys.                                    *)
(***************************************************************************)
Item(k, v) == [k |-> k, v |-> v]

KeysOf(ev) == {ev[i].k : i \in 1..Len(ev)}

\* ev.get(k)
Get(ev, k) ==
    IF k \in KeysOf(ev)
    THEN ev[CHOOSE i \in 1..Len(ev) : ev[i].k = k].v
    ELSE None

\* the keys of the model in the order sort_keys=True puts them
SortedKeys ==
    <<"date", "event_id", "id", "location", "start_iso8601", "string", "summary", "url">>

\* ", ".join(parts)
RECURSIVE JoinComma(_)
JoinComma(parts) ==
    IF Len(parts) = 0 THEN <<>>
    ELSE IF Len(parts) = 1 THEN parts[1]
    ELSE parts[1] \o <<",">> \o JoinComma(Tail(parts))

\* json.dumps(v, sort_keys=True, ensure_ascii=False) as a sequence of tokens:
\* the characters of the text, with a key as one token.  The items of a
\* dict come in the order of their keys, at every level.
RECURSIVE JsonDump(_)
RECURSIVE DumpSorted(_, _)
DumpSorted(ev, i) ==
    IF i > Len(SortedKeys) THEN <<>>
    ELSE (IF SortedKeys[i] \in KeysOf(ev)
          THEN << <<"\"", SortedKeys[i], "\"", ":">> \o JsonDump(Get(ev, SortedKeys[i])) >>
          ELSE <<>>) \o DumpSorted(ev, i + 1)

JsonDump(v) ==
    CASE v.t = "str" -> <<"\"">> \o v.s \o <<"\"">>
      [] v.t = "int" -> IF v.n < 0 THEN <<"-">> \o NatToText(-v.n) ELSE NatToText(v.n)
      [] v.t = "bool" -> IF v.b THEN <<"t", "r", "u", "e">> ELSE <<"f", "a", "l", "s", "e">>
      [] v.t = "null" -> <<"n", "u", "l", "l">>
      [] v.t = "dict" -> <<"{">> \o JoinComma(DumpSorted(v.items, 1)) \o <<"}">>

\* variant: json.dumps without sort_keys, the items in insertion order
RECURSIVE DumpUnsorted(_)
DumpUnsorted(v) ==
    IF v.t # "dict" THEN JsonDump(v)
    ELSE <<"{">> \o JoinComma([i \in 1..Len(v.items) |->
                      <<"\"", v.items[i].k, "\"", ":">> \o DumpUnsorted(v.items[i].v)])
         \o <<"}">>

EventHashUnsorted(ev) == DumpUnsorted(JDict(ev))

\* _event_hash: SHA-256 of the key-sorted serialization.  The digest is
\* represented by the serialization it is computed from (SHA-256 taken as
\* collision-free).
EventHash(ev) == JsonDump(JDict(ev))

\* the event_id loop of save_event_if_new
RECURSIVE FirstTruthy(_, _, _)
FirstTruthy(ev, ks, i) ==
    IF i > Len(ks) THEN None
    ELSE IF Truthy(Get(ev, ks[i])) THEN JStr(PyStr(Get(ev, ks[i])))
    ELSE FirstTruthy(ev, ks, i + 1)

\* variant: the loop goes over ("url", "id", "event_id")
IdentityKeyUrlFirst(ev) == FirstTruthy(ev, <<"url", "id", "event_id">>, 1)

IdentityKey(ev) == FirstTruthy(ev, <<"id", "event_id", "url">>, 1)

\* a value as JSONB holds it and psycopg2 reads it back: an object is a
\* mapping, the insertion order of its keys is not kept
RECURSIVE JsonbValue(_)
JsonbValue(v) ==
    IF v.t = "dict"
    THEN [t |-> "obj", m |-> [k \in KeysOf(v.items) |-> JsonbValue(Get(v.items, k))]]
    ELSE v

\* psycopg2.extras.Json(ev) stored in the JSONB column payload
ToJsonb(ev) == JsonbValue(JDict(ev)).m

\* payload ->> 'k' of PostgreSQL: the text of the member, NULL when the
\* member is absent or JSON null
JsonText(payload, k) ==
    IF k \notin DOMAIN payload THEN None
    ELSE IF payload[k].t = "null" THEN None
    ELSE IF payload[k].t = "str" THEN payload[k]
    ELSE JStr(JsonDump(payload[k]))

(***************************************************************************)
(* Timestamps of PostgreSQL, for the text forms the model uses:            *)
(* YYYY-MM-DD and YYYY-MM-DDTHH:MM:SS+HH:MM are accepted by the cast to    *)
(* timestamptz, DD/MM/YYYY by to_timestamp; a cast of any other text of    *)
(* the model raises an error, as PostgreSQL does for it.                   *)
(***************************************************************************)
TimeError == [ok |-> FALSE]
TimeOk(t) == [ok |-> TRUE, t |-> t]

AllDigits(s, from, to) == \A i \in from..to : IsDigit(s[i])

RECURSIVE TextToNat(_, _, _)
TextToNat(s, from, to) ==
    IF from > to THEN 0
    ELSE TextToNat(s, from, to - 1) * 10 + DigitVal(s[to])

IsLeap(y) == (y % 4 = 0 /\ y % 100 # 0) \/ y % 400 = 0

DaysInMonth(y, m) ==
    IF m = 2 THEN (IF IsLeap(y) THEN 29 ELSE 28)
    ELSE IF m \in {4, 6, 9, 11} THEN 30 ELSE 31

RECURSIVE DaysBeforeMonth(_, _)
DaysBeforeMonth(y, m) ==
    IF m = 1 THEN 0 ELSE DaysBeforeMonth(y, m - 1) + DaysInMonth(y, m - 1)

DaysBeforeYear(y) ==
    365 * y + ((y - 1) \div 4) - ((y - 1) \div 100) + ((y - 1) \div 400)

ValidDate(y, m, d) == m \in 1..12 /\ d \in 1..DaysInMonth(y, m)

\* minutes from the epoch to midnight UTC of a valid date
DateMinutes(y, m, d) ==
    (DaysBeforeYear(y) - DaysBeforeYear(2000) + DaysBeforeMonth(y, m) + (d - 1)) * 1440

IsIsoDateShape(s) ==
    /\ Len(s) >= 10
    /\ AllDigits(s, 1, 4) /\ s[5] = "-"
    /\ AllDigits(s, 6, 7) /\ s[8] = "-"
    /\ AllDigits(s, 9, 10)

IsIsoTimeShape(s) ==
    /\ Len(s) = 25
    /\ s[11] = "T"
    /\ AllDigits(s, 12, 13) /\ s[14] = ":"
    /\ AllDigits(s, 15, 16) /\ s[17] = ":"
    /\ AllDigits(s, 18, 19)
    /\ s[20] \in {"+", "-"}
    /\ AllDigits(s, 21, 22) /\ s[23] = ":"
    /\ AllDigits(s, 24, 25)

\* text :: timestamptz
CastTimestamptz(s) ==
    IF Len(s) \notin {10, 25} \/ ~IsIsoDateShape(s) THEN TimeError
    ELSE LET y == TextToNat(s, 1, 4)
             m == TextToNat(s, 6, 7)
             d == TextToNat(s, 9, 10)
         IN  IF ~ValidDate(y, m, d) THEN TimeError
             ELSE IF Len(s) = 10 THEN TimeOk(DateMinutes(y, m, d))
             ELSE IF ~IsIsoTimeShape(s) THEN TimeError
             ELSE LET hh == TextToNat(s, 12, 13)
                      mi == TextToNat(s, 15, 16)
                      ss == TextToNat(s, 18, 19)
                      zh == TextToNat(s, 21, 22)
                      zm == TextToNat(s, 24, 25)
                      off == (IF s[20] = "+" THEN 1 ELSE -1) * (zh * 60 + zm)
                  IN  IF hh > 23 \/ mi > 59 \/ ss > 59 \/ zh > 15 \/ zm > 59
                      THEN TimeError
                      ELSE TimeOk(DateMinutes(y, m, d) + hh * 60 + mi - off)

\* text ~ '^\d{4}-'
MatchesIsoPrefix(s) == Len(s) >= 5 /\ AllDigits(s, 1, 4) /\ s[5] = "-"

\* text ~ '^\d{2}/\d{2}/\d{4}$'
MatchesDmy(s) ==
    /\ Len(s) = 10
    /\ AllDigits(s, 1, 2) /\ s[3] = "/"
    /\ AllDigits(s, 4, 5) /\ s[6] = "/"
    /\ AllDigits(s, 7, 10)

\* variant: the template 'MM/DD/YYYY'
ToTimestampMdy(s) ==
    LET m == TextToNat(s, 1, 2)
        d == TextToNat(s, 4, 5)
        y == TextToNat(s, 7, 10)
    IN  IF ValidDate(y, m, d) THEN TimeOk(DateMinutes(y, m, d)) ELSE TimeError

\* to_timestamp(text, 'DD/MM/YYYY')::timestamptz, for text that matches
\* the DD/MM/YYYY pattern
ToTimestampDmy(s) ==
    LET d == TextToNat(s, 1, 2)
        m == TextToNat(s, 4, 5)
        y == TextToNat(s, 7, 10)
    IN  IF ValidDate(y, m, d) THEN TimeOk(DateMinutes(y, m, d)) ELSE TimeError

\* an SQL value that is NULL
SqlNull == [ok |-> TRUE, null |-> TRUE]

IsNull(x) == x.ok /\ "null" \in DOMAIN x

\* (payload->>'start_iso8601')::timestamptz
StartIsoTime(payload) ==
    LET s == JsonText(payload, "start_iso8601")
    IN  IF s = None THEN SqlNull ELSE CastTimestamptz(s.s)

\* the CASE expression over payload->>'date'
DateCaseTime(payload) ==
    LET s == JsonText(payload, "date")
    IN  IF s = None THEN SqlNull
        ELSE IF MatchesIsoPrefix(s.s) THEN CastTimestamptz(s.s)
        ELSE IF MatchesDmy(s.s) THEN ToTimestampDmy(s.s)
        ELSE SqlNull

\* variant: the window without its two end points
BetweenOpen(x, lo, hi) == lo < x /\ x < hi

\* x BETWEEN lo AND hi, for a non-null x
Between(x, lo, hi) == lo <= x /\ x <= hi

(***************************************************************************)
(* The events the feed delivers and the windows the reports ask for.       *)
(***************************************************************************)
EvA1 == <<Item("id", JStr(<<"A">>)), Item("summary", JStr(<<"x">>)),
          Item("start_iso8601", JStr(<<"2", "0", "2", "4", "-", "0", "3", "-", "0", "1", "T", "1", "0", ":", "0", "0", ":", "0", "0", "+", "0", "2", ":", "0", "0">>))>>

EvA2 == <<Item("id", JStr(<<"A">>)), Item("summary", JStr(<<"y">>))>>

EvN1 == <<Item("summary", JStr(<<"x">>)), Item("date", JStr(<<"0", "1", "/", "0", "3", "/", "2", "0", "2", "4">>))>>

EvN2 == <<Item("summary", JStr(<<"y">>)), Item("date", JStr(<<"2", "0", "2", "4", "-", "0", "3", "-", "0", "2">>))>>

EvBadStart == <<Item("id", JStr(<<>>)), Item("event_id", None), Item("url", JStr(<<"C">>)),
                Item("start_iso8601", JStr(<<"T", "B", "A">>))>>

\* records whose identity comes from different fields or types
EvId5 == <<Item("id", JInt(5)), Item("summary", JStr(<<"x">>))>>

EvId5Text == <<Item("id", JStr(<<"5">>)), Item("summary", JStr(<<"x">>))>>

EvIdX == <<Item("id", JStr(<<"X">>))>>

EvUrlX == <<Item("summary", JStr(<<"y">>)), Item("url", JStr(<<"X">>))>>

EvBadDate == <<Item("summary", JStr(<<"z">>)), Item("date", JStr(<<"2", "0", "2", "4", "-", "1", "3", "-", "4", "5">>))>>

\* both time fields, on different days
EvBoth == <<Item("summary", JStr(<<"w">>)),
            Item("start_iso8601", JStr(<<"2", "0", "2", "4", "-", "0", "3", "-", "0", "2", "T", "1", "0", ":", "0", "0", ":", "0", "0", "+", "0", "2", ":", "0", "0">>)),
            Item("date", JStr(<<"0", "1", "/", "0", "3", "/", "2", "0", "2", "4">>))>>

\* a date in neither of the two shapes
EvLoose == <<Item("summary", JStr(<<"v">>)), Item("date", JStr(<<"T", "B", "A">>))>>

\* two processes share a database that an earlier run has set up; the feed
\* repeats events, collides on the id or carries no id
Concurrent ==
    [procs |-> Procs, feed |-> {EvA1, EvA2, EvN1, EvN2}, maxCalls |-> MaxCalls,
     fresh |-> {FALSE}]

\* one process, on a fresh database or one set up earlier, stores events
\* with good and bad time fields and reports
Serial ==
    [procs |-> {"p1"}, feed |-> {EvA1, EvN1, EvN2, EvBadStart, EvBadDate},
     maxCalls |-> MaxSerialCalls, fresh |-> BOOLEAN]

\* one process stores events whose time fields all parse, with every
\* combination of time sources, and reports
Reports ==
    [procs |-> {"p1"}, feed |-> {EvA1, EvN1, EvN2, EvBoth, EvLoose},
     maxCalls |-> MaxSerialCalls, fresh |-> {FALSE}]

\* one process whose connection objects the interpreter reclaims at some
\* time after the call that made them has ended
Lifetime ==
    [procs |-> {"p1"}, feed |-> {EvA1, EvBadStart}, maxCalls |-> MaxCalls,
     fresh |-> BOOLEAN]

\* one process stores records whose identity values have the same text
Alike ==
    [procs |-> {"p1"}, feed |-> {EvId5, EvId5Text, EvIdX, EvUrlX},
     maxCalls |-> MaxSerialCalls, fresh |-> {FALSE}]

\* poll_events runs one after another against a database set up earlier;
\* the feed answers with a list of events that repeats and changes from one
\* fetch to the next
Poll ==
    [procs |-> {"p1"}, feed |-> {EvA1, EvN1, EvBadStart},
     batches |-> {<<EvA1, EvN1>>, <<EvBadStart, EvA1>>},
     maxRuns |-> MaxRuns, maxCalls |-> MaxRuns * 2, fresh |-> {FALSE}]

\* two processes run poll_events at the same time, one run for each; the
\* feed holds one event
PollTwice ==
    [procs |-> Procs, feed |-> {EvA1, EvA2},
     batches |-> {<<EvA1>>, <<EvA2>>},
     maxRuns |-> Cardinality(Procs), maxCalls |-> Cardinality(Procs), fresh |-> {FALSE}]

Day1 == DateMinutes(2024, 3, 1)
Day2 == DateMinutes(2024, 3, 2)

\* [start, end] of a report: 00:00 to 23:59 of a day
Windows == {<<Day1, Day1 + 1439>>, <<Day2, Day2 + 1439>>}

\* the clock of the database server when the model starts: noon of Day1
ClockStart == Day1 + 720

(***************************************************************************)
(* The database: the events table with its two unique indexes.             *)
(***************************************************************************)
Table == "events"
HashIdx == "events_event_hash_idx"
IdIdx == "events_event_id_idx"

AllObjects == {Table, HashIdx, IdIdx}

Row(id, ev, now) ==
    [id |-> id, event_id |-> IdentityKey(ev), event_hash |-> EventHash(ev),
     payload |-> ToJsonb(ev), created_at |-> now]

\* variant: the index on event_hash is not unique
HashConflictOff(r1, r2) == FALSE

\* events_event_hash_idx: UNIQUE (event_hash)
HashConflict(r1, r2) == r1.event_hash = r2.event_hash

\* variant: the index on event_id is not unique
IdConflictOff(r1, r2) == FALSE

\* variant: the index on event_id has no WHERE clause and treats NULLs as equal
IdConflictNulls(r1, r2) == r1.event_id = r2.event_id

\* events_event_id_idx: UNIQUE (event_id) WHERE event_id IS NOT NULL
IdConflict(r1, r2) == r1.event_id # None /\ r1.event_id = r2.event_id

\* variant: only the hash index arbitrates
ConflictsHashOnly(r1, r2) == HashConflict(r1, r2)

\* the rows the unique indexes do not allow together (the SERIAL primary key
\* never conflicts: every insert draws a fresh value)
Conflicts(r1, r2) == HashConflict(r1, r2) \/ IdConflict(r1, r2)

VARIABLES
    store,      \* the committed rows of events
    schema,     \* the committed objects of the database
    seq,        \* last value drawn from the sequence of events.id
    clock,      \* the latest time the server gave out as now()
    calls,      \* number of calls started
    pc,         \* pc[p]: where process p is
    call,       \* call[p]: the call p is in
    txn,        \* txn[p]: state of the transaction on p's connection
    pending,    \* pending[p]: the row p's transaction inserted, not yet committed
    cur,        \* cur[p]: what p's cursor holds
    last,       \* last[p]: the last call of p that ended, and how
    scenario,   \* the processes that run and the events the feed delivers
    unclosed,   \* unclosed[p]: a call of p ended and left its connection open
    probe,      \* a record handed to the pure functions, and what they gave
    bot         \* the runs of poll_events, and the messages they sent

dbvars ==
    <<store, schema, seq, clock, calls, pc, call, txn, pending, cur, last, scenario,
      unclosed>>

vars == <<dbvars, probe, bot>>

\* startStore and execStore are the committed rows when the call began and
\* when its statement ran; rowid is the id its INSERT drew
NoCall ==
    [op |-> "none", arg |-> <<>>, startStore |-> {}, execStore |-> {},
     fail |-> "none", rowid |-> 0]

NoResult == [op |-> "none"]

NoProbe == [stage |-> "none"]

NoBot == [on |-> FALSE]

Start ==
    /\ store = {}
    /\ schema \in {IF f THEN {} ELSE AllObjects : f \in scenario.fresh}
    /\ seq = 0
    /\ clock = ClockStart
    /\ calls = 0
    /\ pc = [p \in Procs |-> "idle"]
    /\ call = [p \in Procs |-> NoCall]
    /\ txn = [p \in Procs |-> "none"]
    /\ pending = [p \in Procs |-> NoRow]
    /\ cur = [p \in Procs |-> NoRow]
    /\ last = [p \in Procs |-> NoResult]
    /\ unclosed = [p \in Procs |-> FALSE]

Init == scenario = Concurrent /\ Start /\ probe = NoProbe /\ bot = NoBot

InitSerial == scenario = Serial /\ Start /\ probe = NoProbe /\ bot = NoBot

InitReports == scenario = Reports /\ Start /\ probe = NoProbe /\ bot = NoBot

InitLifetime == scenario = Lifetime /\ Start /\ probe = NoProbe /\ bot = NoBot

\* now() of a transaction that begins: the time the server last gave out, or
\* a day later
Now == {t \in {clock, clock + 1440} : t <= ClockStart + MaxTicks * 1440}

\* the connection of the call c of p is gone: it was never made or it broke
ConnGone(p, c) ==
    \/ txn[p] \in {"none", "lost"}
    \/ c.op = "ensure" /\ c.fail = "execute"

\* the call of p ends: it returned val or raised, and its locals are gone.
\* Leaving "with conn" commits or rolls back and does not close: a
\* connection that was made, and is not lost, is still open.
Finished(p, c, kind, val) ==
    /\ last' = [last EXCEPT ![p] =
                   [op |-> c.op, arg |-> c.arg,
                    startStore |-> c.startStore, execStore |-> c.execStore,
                    fail |-> c.fail, rowid |-> c.rowid, kind |-> kind, val |-> val]]
    /\ call' = [call EXCEPT ![p] = NoCall]
    /\ cur' = [cur EXCEPT ![p] = NoRow]
    /\ txn' = [txn EXCEPT ![p] = "none"]
    /\ pc' = [pc EXCEPT ![p] = "idle"]
    /\ unclosed' = [unclosed EXCEPT ![p] = @ \/ ~ConnGone(p, c)]

\* a process calls one of the three operations of DB
Begin(p, op, arg) ==
    /\ p \in scenario.procs
    /\ pc[p] = "idle"
    /\ calls < scenario.maxCalls
    /\ calls' = calls + 1
    /\ call' = [call EXCEPT ![p] =
                   [NoCall EXCEPT !.op = op, !.arg = arg, !.startStore = store]]
    /\ pc' = [pc EXCEPT ![p] = "connect"]
    /\ UNCHANGED <<store, schema, seq, clock, txn, pending, cur, last, scenario, unclosed, probe>>

CallSave(p) == (\E ev \in scenario.feed : Begin(p, "save", ev)) /\ UNCHANGED bot

CallQuery(p) == (\E w \in Windows : Begin(p, "query", w)) /\ UNCHANGED bot

CallEnsure(p) == Begin(p, "ensure", <<>>) /\ UNCHANGED bot

\* get_conn: psycopg2.connect
Connect(p) ==
    /\ pc[p] = "connect"
    /\ pc' = [pc EXCEPT ![p] = call[p].op]
    /\ txn' = [txn EXCEPT ![p] = "idle"]
    /\ UNCHANGED <<store, schema, seq, clock, calls, call, pending, cur, last, scenario, unclosed, probe, bot>>

ConnectFail(p) ==
    /\ pc[p] = "connect"
    /\ Finished(p, [call[p] EXCEPT !.fail = "connect"], "raised", <<>>)
    /\ UNCHANGED <<store, schema, seq, clock, calls, pending, scenario, probe, bot>>

(***************************************************************************)
(* save_event_if_new                                                       *)
(***************************************************************************)
\* variant: check-then-insert, nothing waits for a transaction in flight
BlockedNever(p, row) == FALSE

\* INSERT waits while the transaction of another connection holds an
\* uncommitted row that the unique indexes do not allow next to the new one
Blocked(p, row) ==
    \E q \in Procs \ {p} : pending[q] # NoRow /\ Conflicts(row, pending[q])

\* variant: a plain INSERT into a table without unique indexes
ArbiterOff(rows, row) == FALSE

\* INSERT ... ON CONFLICT DO NOTHING, against the committed rows
Arbiter(rows, row) == \E r \in rows : Conflicts(row, r)

\* variant: the insert also refreshes created_at of the rows already stored
CommitRowsTouch(rows, row) ==
    IF row = NoRow THEN rows
    ELSE {[r EXCEPT !.created_at = row.created_at] : r \in rows} \cup {row}

\* the rows of a transaction become durable
CommitRows(rows, row) == IF row = NoRow THEN rows ELSE rows \cup {row}

\* cur.execute(insert_sql, ...): the statement runs on the server
SaveExecute(p) ==
    /\ pc[p] = "save"
    /\ \E now \in Now :
       LET row == Row(seq + 1, call[p].arg, now)
       IN  IF Table \notin schema
           THEN \* relation "events" does not exist
                /\ pc' = [pc EXCEPT ![p] = "save_except"]
                /\ txn' = [txn EXCEPT ![p] = "aborted"]
                /\ call' = [call EXCEPT ![p].fail = "execute"]
                /\ UNCHANGED <<seq, clock, pending, cur>>
           ELSE /\ ~Blocked(p, row)
                /\ clock' = now
                /\ seq' = seq + 1
                /\ txn' = [txn EXCEPT ![p] = "open"]
                /\ call' = [call EXCEPT ![p].execStore = store, ![p].rowid = seq + 1]
                /\ pc' = [pc EXCEPT ![p] = "save_fetch"]
                /\ IF Arbiter(store, row)
                   THEN /\ pending' = [pending EXCEPT ![p] = NoRow]
                        /\ cur' = [cur EXCEPT ![p] = NoRow]
                   ELSE /\ pending' = [pending EXCEPT ![p] = row]
                        /\ cur' = [cur EXCEPT ![p] = [id |-> row.id]]
    /\ UNCHANGED <<store, schema, calls, last, scenario, unclosed, probe, bot>>

\* cur.execute fails: the connection is lost before the statement ran
SaveExecuteFail(p) ==
    /\ pc[p] = "save"
    /\ pc' = [pc EXCEPT ![p] = "save_except"]
    /\ txn' = [txn EXCEPT ![p] = "lost"]
    /\ call' = [call EXCEPT ![p].fail = "execute"]
    /\ UNCHANGED <<store, schema, seq, clock, calls, pending, cur, last, scenario, unclosed, probe, bot>>

\* row = cur.fetchone()
SaveFetch(p) ==
    /\ pc[p] = "save_fetch"
    /\ pc' = [pc EXCEPT ![p] = "save_commit"]
    /\ UNCHANGED <<store, schema, seq, clock, calls, call, txn, pending, cur, last, scenario, unclosed, probe, bot>>

SaveFetchFail(p) ==
    /\ pc[p] = "save_fetch"
    /\ pc' = [pc EXCEPT ![p] = "save_except"]
    /\ call' = [call EXCEPT ![p].fail = "fetch"]
    /\ UNCHANGED <<store, schema, seq, clock, calls, txn, pending, cur, last, scenario, unclosed, probe, bot>>

\* conn.commit(); return bool(row)
SaveCommit(p) ==
    /\ pc[p] = "save_commit"
    /\ store' = CommitRows(store, pending[p])
    /\ pending' = [pending EXCEPT ![p] = NoRow]
    /\ Finished(p, call[p], "returned", cur[p] # NoRow)
    /\ UNCHANGED <<schema, seq, clock, calls, scenario, probe, bot>>

\* conn.commit() raises.  The connection failed either before the server
\* processed COMMIT, or after it made the transaction durable and before the
\* client read the reply: the client cannot tell which.
SaveCommitFail(p) ==
    /\ pc[p] = "save_commit"
    /\ \E durable \in BOOLEAN :
        /\ store' = IF durable THEN CommitRows(store, pending[p]) ELSE store
        /\ call' = [call EXCEPT ![p].fail = IF durable THEN "commit_after" ELSE "commit_before"]
    /\ pending' = [pending EXCEPT ![p] = NoRow]
    /\ txn' = [txn EXCEPT ![p] = "lost"]
    /\ pc' = [pc EXCEPT ![p] = "save_except"]
    /\ UNCHANGED <<schema, seq, clock, calls, cur, last, scenario, unclosed, probe, bot>>

\* variant: the handler swallows the error and reports "not new"
SaveExceptSwallow(p) ==
    /\ pc[p] = "save_except"
    /\ pending' = [pending EXCEPT ![p] = NoRow]
    /\ Finished(p, call[p], "returned", FALSE)
    /\ UNCHANGED <<store, schema, seq, clock, calls, scenario, probe, bot>>

\* except Exception: conn.rollback(); raise
SaveExcept(p) ==
    /\ pc[p] = "save_except"
    /\ pending' = [pending EXCEPT ![p] = NoRow]
    /\ Finished(p, call[p], "raised", <<>>)
    /\ UNCHANGED <<store, schema, seq, clock, calls, scenario, probe, bot>>

(***************************************************************************)
(* get_events_end                                                          *)
(***************************************************************************)
\* variant: a WHERE clause without the test of the start_iso8601 time
WhereEvalDateOnly(r, lo, hi) ==
    LET b == DateCaseTime(r.payload)
    IN  IF ~b.ok THEN "error"
        ELSE IF ~IsNull(b) /\ Between(b.t, lo, hi) THEN "in"
        ELSE IF Between(r.created_at, lo, hi) THEN "in"
        ELSE "out"

\* the WHERE clause of the primary statement for one row: "in", "out", or
\* "error" when a cast raises.  OR is evaluated left to right and stops at
\* the first operand that is true.
WhereEval(r, lo, hi) ==
    LET a == StartIsoTime(r.payload)
        b == DateCaseTime(r.payload)
    IN  IF ~a.ok THEN "error"
        ELSE IF ~IsNull(a) /\ Between(a.t, lo, hi) THEN "in"
        ELSE IF ~b.ok THEN "error"
        ELSE IF ~IsNull(b) /\ Between(b.t, lo, hi) THEN "in"
        ELSE IF Between(r.created_at, lo, hi) THEN "in"
        ELSE "out"

\* COALESCE(start_iso8601 time, date time, created_at) AS event_time, for a
\* row the WHERE clause evaluated without error
EventTime(r) ==
    LET a == StartIsoTime(r.payload)
        b == DateCaseTime(r.payload)
    IN  IF ~IsNull(a) THEN a.t
        ELSE IF ~IsNull(b) THEN b.t
        ELSE r.created_at

\* ORDER BY key ASC: the orders the server may return the rows S in, for
\* key a function from rows to times
SortedBy(S, key) ==
    {f \in [1..Cardinality(S) -> S] :
        /\ \A i, j \in 1..Cardinality(S) : i # j => f[i] # f[j]
        /\ \A i, j \in 1..Cardinality(S) : i < j => key[f[i]] <= key[f[j]]}

PrimaryFails(rows, lo, hi) == \E r \in rows : WhereEval(r, lo, hi) = "error"

\* variant: ORDER BY created_at ASC
PrimaryRowsByCreated(rows, lo, hi) ==
    SortedBy({r \in rows : WhereEval(r, lo, hi) = "in"}, [r \in rows |-> r.created_at])

\* SELECT ... WHERE ... ORDER BY event_time ASC
PrimaryRows(rows, lo, hi) ==
    SortedBy({r \in rows : WhereEval(r, lo, hi) = "in"}, [r \in rows |-> EventTime(r)])

\* SELECT payload FROM events WHERE created_at BETWEEN ... ORDER BY created_at
FallbackRows(rows, lo, hi) ==
    SortedBy({r \in rows : Between(r.created_at, lo, hi)}, [r \in rows |-> r.created_at])

\* a statement sent in a transaction that is aborted, or on a connection
\* that is lost, is rejected
Rejected(state) == state \in {"aborted", "lost"}

\* rows = cur.fetchall() after the primary statement: the two columns of
\* its SELECT list
Fetched(rows) ==
    [i \in 1..Len(rows) |-> [payload |-> rows[i].payload, event_time |-> EventTime(rows[i])]]

\* rows = cur.fetchall() after the fallback statement: one column
FetchedFallback(rows) == [i \in 1..Len(rows) |-> [payload |-> rows[i].payload]]

\* results.append(payload) for every fetched row
Payloads(rows) == [i \in 1..Len(rows) |-> rows[i].payload]

\* cur.execute(sql, params); rows = cur.fetchall()
QueryPrimary(p) ==
    /\ pc[p] = "query"
    /\ LET lo == call[p].arg[1]
           hi == call[p].arg[2]
       IN  IF Table \notin schema \/ PrimaryFails(store, lo, hi)
           THEN /\ txn' = [txn EXCEPT ![p] = "aborted"]
                /\ call' = [call EXCEPT ![p].execStore = store,
                                        ![p].fail = IF Table \notin schema THEN "schema" ELSE "time"]
                /\ pc' = [pc EXCEPT ![p] = "query_fallback"]
                /\ cur' = cur
           ELSE /\ txn' = [txn EXCEPT ![p] = "open"]
                /\ call' = [call EXCEPT ![p].execStore = store]
                /\ pc' = [pc EXCEPT ![p] = "query_exit"]
                /\ \E rows \in PrimaryRows(store, lo, hi) :
                      cur' = [cur EXCEPT ![p] = [rows |-> Fetched(rows)]]
    /\ UNCHANGED <<store, schema, seq, clock, calls, pending, last, scenario, unclosed, probe, bot>>

\* the primary statement fails because the connection is lost
QueryPrimaryFail(p) ==
    /\ pc[p] = "query"
    /\ txn' = [txn EXCEPT ![p] = "lost"]
    /\ call' = [call EXCEPT ![p].execStore = store, ![p].fail = "transport"]
    /\ pc' = [pc EXCEPT ![p] = "query_fallback"]
    /\ UNCHANGED <<store, schema, seq, clock, calls, pending, cur, last, scenario, unclosed, probe, bot>>

\* except Exception: cur.execute(fallback); rows = cur.fetchall()
\* on the same cursor, connection and transaction
QueryFallback(p) ==
    /\ pc[p] = "query_fallback"
    /\ IF Rejected(txn[p])
       THEN Finished(p, call[p], "raised", <<>>)
       ELSE /\ pc' = [pc EXCEPT ![p] = "query_exit"]
            /\ \E rows \in FallbackRows(store, call[p].arg[1], call[p].arg[2]) :
                  cur' = [cur EXCEPT ![p] = [rows |-> FetchedFallback(rows)]]
            /\ UNCHANGED <<txn, call, last, unclosed>>
    /\ UNCHANGED <<store, schema, seq, clock, calls, pending, scenario, probe, bot>>

\* leaving the with blocks; the loop over rows; return results
QueryExit(p) ==
    /\ pc[p] = "query_exit"
    /\ Finished(p, call[p], "returned", Payloads(cur[p].rows))
    /\ UNCHANGED <<store, schema, seq, clock, calls, pending, scenario, probe, bot>>

(***************************************************************************)
(* ensure_tables                                                           *)
(***************************************************************************)
\* variant: CREATE without IF NOT EXISTS, an error when the name is taken
CreateStrict(res, o) ==
    IF ~res.ok \/ o \in res.objects THEN [res EXCEPT !.ok = FALSE]
    ELSE [res EXCEPT !.objects = @ \cup {o}]

\* CREATE ... IF NOT EXISTS o: a notice and nothing else when o exists
CreateIfNotExists(res, o) ==
    IF ~res.ok THEN res ELSE [res EXCEPT !.objects = @ \cup {o}]

\* the three statements of the sql text, one after the other
EnsureSql(objects) ==
    CreateIfNotExists(
        CreateIfNotExists(
            CreateIfNotExists([ok |-> TRUE, objects |-> objects], Table),
            HashIdx),
        IdIdx)

\* cur.execute(sql) and the commit on leaving the with block; a statement
\* that fails rolls the transaction back and the error is raised
EnsureExecute(p) ==
    /\ pc[p] = "ensure"
    /\ LET res == EnsureSql(schema)
       IN  IF res.ok
           THEN /\ schema' = res.objects
                /\ Finished(p, call[p], "returned", <<>>)
           ELSE /\ schema' = schema
                /\ Finished(p, [call[p] EXCEPT !.fail = "exists"], "raised", <<>>)
    /\ UNCHANGED <<store, seq, clock, calls, pending, scenario, probe, bot>>

\* cur.execute(sql) fails because the connection is lost
EnsureFail(p) ==
    /\ pc[p] = "ensure"
    /\ Finished(p, [call[p] EXCEPT !.fail = "execute"], "raised", <<>>)
    /\ UNCHANGED <<store, schema, seq, clock, calls, pending, scenario, probe, bot>>

Next ==
    \E p \in Procs :
        \/ CallSave(p)
        \/ CallQuery(p)
        \/ CallEnsure(p)
        \/ Connect(p)
        \/ ConnectFail(p)
        \/ SaveExecute(p)
        \/ SaveExecuteFail(p)
        \/ SaveFetch(p)
        \/ SaveFetchFail(p)
        \/ SaveCommit(p)
        \/ SaveCommitFail(p)
        \/ SaveExcept(p)
        \/ QueryPrimary(p)
        \/ QueryPrimaryFail(p)
        \/ QueryFallback(p)
        \/ QueryExit(p)
        \/ EnsureExecute(p)
        \/ EnsureFail(p)

Spec == Init /\ [][Next]_vars

SpecSerial == InitSerial /\ [][Next]_vars

SpecReports == InitReports /\ [][Next]_vars

\* the interpreter reclaims the connection objects that no frame, traceback
\* or variable refers to any more; deallocation closes them
Collect(p) ==
    /\ unclosed[p]
    /\ unclosed' = [unclosed EXCEPT ![p] = FALSE]
    /\ UNCHANGED <<store, schema, seq, clock, calls, pc, call, txn, pending, cur, last,
                   scenario, probe, bot>>

NextLifetime == Next \/ \E p \in Procs : Collect(p)

SpecLifetime == InitLifetime /\ [][NextLifetime]_vars

(***************************************************************************)
(* The two pure functions of save_event_if_new, applied to records of all  *)
(* shapes: each of id, event_id and url absent or with a value of any      *)
(* kind, with and without a nested dict.                                   *)
(***************************************************************************)
ProbeValues ==
    {None, JStr(<<>>), JStr(<<"A">>), JInt(0), JInt(5), JBool(FALSE), JBool(TRUE)}

Absent == [t |-> "absent"]

Location == JDict(<<Item("string", JStr(<<"S">>)), Item("url", JStr(<<"U">>))>>)

\* the dict with the keys that are given a value, in the order id, event_id,
\* url, location
Build(id, eid, url, loc) ==
    (IF id = Absent THEN <<>> ELSE <<Item("id", id)>>)
    \o (IF eid = Absent THEN <<>> ELSE <<Item("event_id", eid)>>)
    \o (IF url = Absent THEN <<>> ELSE <<Item("url", url)>>)
    \o (IF loc = Absent THEN <<>> ELSE <<Item("location", loc)>>)

ExampleAB == <<Item("id", JStr(<<"A">>)), Item("url", JStr(<<"B">>))>>

ExampleC == <<Item("id", JStr(<<>>)), Item("event_id", None), Item("url", JStr(<<"C">>))>>

ProbeRecords ==
    {Build(id, eid, url, loc) :
        id \in ProbeValues \cup {Absent}, eid \in ProbeValues \cup {Absent},
        url \in ProbeValues \cup {Absent}, loc \in {Absent, Location}}
    \cup {ExampleAB, ExampleC}

\* the same items in every order
Orders(items) ==
    LET n == Len(items)
    IN  {[i \in 1..n |-> items[f[i]]] :
            f \in {g \in [1..n -> 1..n] : \A i, j \in 1..n : i # j => g[i] # g[j]}}

\* the dicts with the content of ev, built in another order of insertion, at
\* the top or in the nested dict
Reorderings(ev) ==
    UNION {IF \E i \in 1..Len(b) : b[i].v.t = "dict"
           THEN LET i == CHOOSE i \in 1..Len(b) : b[i].v.t = "dict"
                IN  {[b EXCEPT ![i].v = JDict(n)] : n \in Orders(b[i].v.items)}
           ELSE {b} : b \in Orders(ev)}

DropItem(items, i) == SubSeq(items, 1, i - 1) \o SubSeq(items, i + 1, Len(items))

\* the dicts one change away from items: a value replaced, a key removed,
\* a key added
EditsOf(items) ==
    {[items EXCEPT ![i].v = v] :
        i \in {j \in 1..Len(items) : items[j].v.t # "dict"}, v \in ProbeValues}
    \cup {DropItem(items, i) : i \in 1..Len(items)}
    \cup {items \o <<Item("summary", JStr(<<"x">>))>>}

\* the records one change away from ev, at the top or in the nested dict
Edits(ev) ==
    (EditsOf(ev)
     \cup UNION {{[ev EXCEPT ![i].v = JDict(n)] : n \in EditsOf(ev[i].v.items)} :
                    i \in {j \in 1..Len(ev) : ev[j].v.t = "dict"}})
    \ {ev}

InitProbe ==
    /\ scenario = Serial
    /\ Start
    /\ probe \in {[stage |-> "given", a |-> ev] : ev \in ProbeRecords}
    /\ bot = NoBot

\* the event_id loop, lines 55-60
ProbeIdentity ==
    /\ probe.stage = "given"
    /\ probe' = [stage |-> "identity", a |-> probe.a, key |-> IdentityKey(probe.a)]
    /\ UNCHANGED <<dbvars, bot>>

\* _event_hash of a record and of the same content inserted in another order
ProbeReorder ==
    /\ probe.stage = "given"
    /\ \E b \in Reorderings(probe.a) :
          probe' = [stage |-> "reordered", a |-> probe.a, b |-> b,
                    ha |-> EventHash(probe.a), hb |-> EventHash(b)]
    /\ UNCHANGED <<dbvars, bot>>

\* _event_hash of a record and of a record one change away
ProbeEdit ==
    /\ probe.stage = "given"
    /\ \E b \in Edits(probe.a) :
          probe' = [stage |-> "edited", a |-> probe.a, b |-> b,
                    ha |-> EventHash(probe.a), hb |-> EventHash(b)]
    /\ UNCHANGED <<dbvars, bot>>

NextProbe == ProbeIdentity \/ ProbeReorder \/ ProbeEdit

SpecProbe == InitProbe /\ [][NextProbe]_vars

(***************************************************************************)
(* poll_events of linkki_bot.py: fetch the events, save each with          *)
(* save_event_if_new, form a message for every new one, send the messages. *)
(***************************************************************************)
NoRun == [stage |-> "off"]

InitPoll ==
    /\ scenario \in {Poll, PollTwice}
    /\ Start
    /\ probe = NoProbe
    /\ bot = [on |-> TRUE, runs |-> 0, run |-> [p \in Procs |-> NoRun],
              news |-> {}, sent |-> EmptyBag]

\* datetime.datetime.fromisoformat(start) accepts the text
FromIsoformatOk(s) ==
    /\ Len(s) \in {10, 25}
    /\ IsIsoDateShape(s)
    /\ ValidDate(TextToNat(s, 1, 4), TextToNat(s, 6, 7), TextToNat(s, 9, 10))
    /\ Len(s) = 25 =>
          /\ IsIsoTimeShape(s)
          /\ TextToNat(s, 12, 13) <= 23 /\ TextToNat(s, 15, 16) <= 59
          /\ TextToNat(s, 18, 19) <= 59

\* form_message(ev) returns a text; it raises when start_iso8601 is truthy
\* and not a text that fromisoformat accepts
FormOk(ev) ==
    LET start == Get(ev, "start_iso8601")
    IN  Truthy(start) => (start.t = "str" /\ FromIsoformatOk(start.s))

\* is_new = db.save_event_if_new(ev), or the exception it raised
Outcome(c) ==
    IF c.kind = "raised" THEN "raised" ELSE IF c.val THEN "new" ELSE "old"

\* variant: every event that was saved without an error is appended
AppendsSaved(outcome) == outcome # "raised"

\* if is_new: new_events.append(ev)
Appends(outcome) == outcome = "new"

\* variant: the handler leaves the loop at the first error
NextIndexBreak(i, outcome, n) == IF outcome = "raised" THEN n + 1 ELSE i + 1

\* the loop goes on with the next event, after an error as well (continue)
NextIndex(i, outcome, n) == i + 1

\* variant: a message that was not delivered is sent once more
NextMessageRetry(j, ok) == IF ok THEN j + 1 ELSE j

\* the loop over messages goes on whatever send_message returned
NextMessage(j, ok) == j + 1

\* api_events = get_events_from_api(): the feed answered with a list
PollStart(p) ==
    /\ bot.on
    /\ p \in scenario.procs
    /\ pc[p] = "idle"
    /\ bot.run[p].stage = "off"
    /\ bot.runs < scenario.maxRuns
    /\ \E events \in scenario.batches :
          bot' = [bot EXCEPT !.runs = @ + 1,
                             !.run[p] = [stage |-> "loop", n |-> bot.runs + 1,
                                         events |-> events, i |-> 1,
                                         new_events |-> <<>>, results |-> <<>>]]
    /\ UNCHANGED <<dbvars, probe>>

\* the fetch failed or found nothing: get_events_from_api returns 1 or 0,
\* the loop of save_events_to_db over it raises TypeError, the run ends
PollFetchFail(p) ==
    /\ bot.on
    /\ p \in scenario.procs
    /\ pc[p] = "idle"
    /\ bot.run[p].stage = "off"
    /\ bot.runs < scenario.maxRuns
    /\ bot' = [bot EXCEPT !.runs = @ + 1]
    /\ UNCHANGED <<dbvars, probe>>

\* for ev in events: ... db.save_event_if_new(ev)
PollSave(p) ==
    /\ bot.on
    /\ bot.run[p].stage = "loop"
    /\ bot.run[p].i <= Len(bot.run[p].events)
    /\ Begin(p, "save", bot.run[p].events[bot.run[p].i])
    /\ bot' = [bot EXCEPT !.run[p].stage = "await"]

\* the call returned or raised: append the event when it is new, print and
\* continue when the call raised or the event is not new
PollTake(p) ==
    /\ bot.on
    /\ bot.run[p].stage = "await"
    /\ pc[p] = "idle"
    /\ LET r == bot.run[p]
           ev == r.events[r.i]
           outcome == Outcome(last[p])
       IN  bot' = [bot EXCEPT
                     !.run[p] = [r EXCEPT
                                   !.stage = "loop",
                                   !.i = NextIndex(r.i, outcome, Len(r.events)),
                                   !.results = Append(@, [ev |-> ev, outcome |-> outcome]),
                                   !.new_events = IF Appends(outcome)
                                                  THEN Append(@, ev) ELSE @],
                     !.news = IF outcome = "new"
                              THEN @ \cup {[p |-> p, n |-> r.n, ev |-> ev]} ELSE @]
    /\ UNCHANGED <<dbvars, probe>>

\* return new_events; the loop that forms the messages.  An event whose
\* message cannot be formed ends the run before anything is sent; so does
\* an empty list, with nothing to send.
PollForm(p) ==
    /\ bot.on
    /\ bot.run[p].stage = "loop"
    /\ bot.run[p].i > Len(bot.run[p].events)
    /\ LET r == bot.run[p]
       IN  bot' = [bot EXCEPT
                     !.run[p] = IF \/ r.new_events = <<>>
                                   \/ \E k \in 1..Len(r.new_events) : ~FormOk(r.new_events[k])
                                THEN NoRun
                                ELSE [stage |-> "send", n |-> r.n,
                                      new_events |-> r.new_events, j |-> 1]]
    /\ UNCHANGED <<dbvars, probe>>

\* ok = send_message(bot_token, chat_id, message): delivered or not; the
\* run ends after the last message
PollSend(p) ==
    /\ bot.on
    /\ bot.run[p].stage = "send"
    /\ \E ok \in BOOLEAN :
          LET r == bot.run[p]
              j == NextMessage(r.j, ok)
          IN  bot' = [bot EXCEPT
                        !.sent = @ (+) SetToBag({[p |-> p, n |-> r.n,
                                                  ev |-> r.new_events[r.j], ok |-> ok]}),
                        !.run[p] = IF j > Len(r.new_events) THEN NoRun
                                   ELSE [r EXCEPT !.j = j]]
    /\ UNCHANGED <<dbvars, probe>>

NextPoll ==
    \E p \in Procs :
        \/ PollStart(p)
        \/ PollFetchFail(p)
        \/ PollSave(p)
        \/ PollTake(p)
        \/ PollForm(p)
        \/ PollSend(p)
        \/ Connect(p)
        \/ ConnectFail(p)
        \/ SaveExecute(p)
        \/ SaveExecuteFail(p)
        \/ SaveFetch(p)
        \/ SaveFetchFail(p)
        \/ SaveCommit(p)
        \/ SaveCommitFail(p)
        \/ SaveExcept(p)

SpecPoll == InitPoll /\ [][NextPoll]_vars

(***************************************************************************)
(* save_event_if_new alone, called again and again by one process.         *)
(***************************************************************************)
InitAlike == scenario = Alike /\ Start /\ probe = NoProbe /\ bot = NoBot

NextSaves ==
    \E p \in Procs :
        \/ CallSave(p)
        \/ Connect(p)
        \/ ConnectFail(p)
        \/ SaveExecute(p)
        \/ SaveExecuteFail(p)
        \/ SaveFetch(p)
        \/ SaveFetchFail(p)
        \/ SaveCommit(p)
        \/ SaveCommitFail(p)
        \/ SaveExcept(p)

SpecAlike == InitAlike /\ [][NextSaves]_vars

TypeOK ==
    /\ seq \in Nat
    /\ calls \in 0..scenario.maxCalls
    /\ \A p \in Procs : pc[p] \in {"idle", "connect", "save", "save_fetch", "save_commit",
                                   "save_except", "query", "query_fallback", "query_exit", "ensure"}

(***************************************************************************)
(* Properties                                                              *)
(***************************************************************************)
SaveReturned(c) == c.op = "save" /\ c.kind = "returned"

\* rows holds a row with the fingerprint of ev or, when ev has an identity
\* key, a row with that identity key
KnownTo(rows, ev) ==
    \E r \in rows :
        \/ r.event_hash = EventHash(ev)
        \/ IdentityKey(ev) # None /\ r.event_id = IdentityKey(ev)

RowsOf(rows, ev) == {r \in rows : r.event_hash = EventHash(ev)}

\* C1: when two processes have saved the same record in calls that both
\* began while the store did not know the record, and both calls returned,
\* exactly one of them returned true and the store holds exactly one row
\* for the record.
C1_ExactlyOneNew ==
    \A p, q \in Procs :
        (/\ p # q
         /\ SaveReturned(last[p]) /\ SaveReturned(last[q])
         /\ last[p].arg = last[q].arg
         /\ ~KnownTo(last[p].startStore, last[p].arg)
         /\ ~KnownTo(last[q].startStore, last[q].arg))
        => /\ last[p].val # last[q].val
           /\ Cardinality(RowsOf(store, last[p].arg)) = 1

C1_Witness ==
    \E p, q \in Procs :
        /\ p # q
        /\ SaveReturned(last[p]) /\ SaveReturned(last[q])
        /\ last[p].arg = last[q].arg
        /\ ~KnownTo(last[p].startStore, last[p].arg)
        /\ ~KnownTo(last[q].startStore, last[q].arg)
        /\ last[p].val = TRUE /\ last[q].val = FALSE
        /\ last[q].rowid > last[p].rowid

\* C2: a save of R that begins and runs on a store that does not know R
\* returns true; a save of the identical R that begins after the first has
\* returned (the row of the first is in the store it begins with) returns
\* false, and the store then holds exactly one row for R.
C2_InsertIdempotent ==
    \A p, q \in Procs :
        (/\ p # q
         /\ SaveReturned(last[p]) /\ SaveReturned(last[q])
         /\ last[p].arg = last[q].arg
         /\ ~KnownTo(last[p].startStore, last[p].arg)
         /\ last[p].execStore = last[p].startStore
         /\ RowsOf(last[q].startStore, last[q].arg) # {})
        => /\ last[p].val = TRUE
           /\ last[q].val = FALSE
           /\ Cardinality(RowsOf(store, last[p].arg)) = 1

C2_Witness ==
    \E p, q \in Procs :
        /\ p # q
        /\ SaveReturned(last[p]) /\ SaveReturned(last[q])
        /\ last[p].arg = last[q].arg
        /\ last[p].startStore = {} /\ last[p].execStore = {}
        /\ \E r \in last[q].startStore : r.id = last[p].rowid
        /\ last[p].val = TRUE /\ last[q].val = FALSE
        /\ Cardinality(store) = 1

\* the rows with identity key k whose fingerprint is not that of ev
Colliding(rows, ev) ==
    {r \in rows : r.event_id = IdentityKey(ev) /\ r.event_hash # EventHash(ev)}

\* C3: a save of a record whose identity key K is not null, begun on a store
\* that holds a row with key K and another fingerprint, returns false; the
\* store still holds that row, unchanged, and no other row with key K.
C3_IdentityCollision ==
    \A p \in Procs :
        (/\ SaveReturned(last[p])
         /\ IdentityKey(last[p].arg) # None
         /\ Colliding(last[p].startStore, last[p].arg) # {})
        => /\ last[p].val = FALSE
           /\ Colliding(last[p].startStore, last[p].arg) =
                  {r \in store : r.event_id = IdentityKey(last[p].arg)}

C3_Witness ==
    \E p \in Procs :
        /\ SaveReturned(last[p])
        /\ IdentityKey(last[p].arg) # None
        /\ Colliding(last[p].startStore, last[p].arg) # {}
        /\ last[p].val = FALSE
        /\ \E r \in store : r.event_id = IdentityKey(last[p].arg)
                            /\ r.payload # ToJsonb(last[p].arg)

\* C4: a save that returns, returns true exactly when the rows committed
\* when its statement ran held neither the fingerprint of the record nor,
\* for a record with an identity key, that key; and a save raises only when
\* a failure occurred, never because the record was known.
C4_NewIffNoConflict ==
    \A p \in Procs :
        /\ SaveReturned(last[p]) =>
              (last[p].val <=> ~KnownTo(last[p].execStore, last[p].arg))
        /\ (last[p].op = "save" /\ last[p].kind = "raised") => last[p].fail # "none"

\* two records without identity key and with different contents are both new
C4_Witness ==
    \E p \in Procs :
        /\ SaveReturned(last[p])
        /\ IdentityKey(last[p].arg) = None
        /\ last[p].val = TRUE
        /\ \E r \in last[p].execStore : r.event_id = None

\* C5: no two committed rows have the same event_hash (content fingerprint).
C5_HashUnique ==
    \A r1, r2 \in store : r1.event_hash = r2.event_hash => r1 = r2

\* a save met a row with its fingerprint that was committed while the save
\* was under way, and the store holds one row with that fingerprint
C5_Witness ==
    \E p \in Procs :
        /\ SaveReturned(last[p])
        /\ RowsOf(last[p].startStore, last[p].arg) = {}
        /\ RowsOf(last[p].execStore, last[p].arg) # {}
        /\ last[p].val = FALSE
        /\ Cardinality(RowsOf(store, last[p].arg)) = 1

\* C6: no two committed rows have the same event_id (identity key) unless
\* it is null; rows with a null event_id coexist.
C6_IdUnique ==
    \A r1, r2 \in store :
        (r1.event_id # None /\ r1.event_id = r2.event_id) => r1 = r2

\* a save met a row with its identity key and another fingerprint that was
\* committed while the save was under way
C6_Witness ==
    \E p \in Procs :
        /\ SaveReturned(last[p])
        /\ IdentityKey(last[p].arg) # None
        /\ Colliding(last[p].startStore, last[p].arg) = {}
        /\ Colliding(last[p].execStore, last[p].arg) # {}
        /\ Cardinality({r \in store : r.event_id = IdentityKey(last[p].arg)}) = 1

\* C7: a committed row stays committed, with the same id, event_id,
\* event_hash, payload and created_at, in every step of every operation.
C7_RowsImmutable == [][\A r \in store : r \in store']_vars

\* a save that failed after its INSERT ended on a store that held a row
\* when it began and holds it still
C7_Witness ==
    \E p \in Procs :
        /\ last[p].op = "save" /\ last[p].kind = "raised"
        /\ last[p].rowid > 0
        /\ last[p].startStore # {}
        /\ last[p].startStore \subseteq store

\* the store holds the row the INSERT of call c made
RowFrom(c) == \E r \in store : r.id = c.rowid

\* C8 as stated: a save in which a failure occurred (in the statement, the
\* fetch or the commit) raised, and the store holds no row from it.
C8_FailureLeavesNoRow ==
    \A p \in Procs :
        (last[p].op = "save" /\ last[p].fail # "none")
        => (last[p].kind = "raised" /\ ~RowFrom(last[p]))

\* C8 amended: a save in which a failure occurred raised; the store holds
\* no row from it unless the failure was a commit that the server had made
\* durable before the connection failed.
C8_FailureRaises ==
    \A p \in Procs :
        (last[p].op = "save" /\ last[p].fail # "none")
        => /\ last[p].kind = "raised"
           /\ RowFrom(last[p]) => last[p].fail = "commit_after"

\* a save that failed after its INSERT had made a row, and left none
C8_Witness ==
    \E p \in Procs :
        /\ last[p].op = "save" /\ last[p].kind = "raised"
        /\ last[p].fail \in {"fetch", "commit_before"}
        /\ last[p].rowid > 0
        /\ ~KnownTo(last[p].execStore, last[p].arg)
        /\ ~RowFrom(last[p])

\* the results of the statement that filters and orders by created_at only
DegradedResults(c) ==
    {Payloads(f) : f \in FallbackRows(c.execStore, c.arg[1], c.arg[2])}

\* C9: a query whose primary statement failed on a time expression returned,
\* and returned the payloads of the rows whose created_at is in the window,
\* in ascending order of created_at.
C9_DegradedMode ==
    \A p \in Procs :
        (last[p].op = "query" /\ last[p].fail = "time")
        => /\ last[p].kind = "returned"
           /\ last[p].val \in DegradedResults(last[p])

\* a time field that is present and does not parse
Malformed(r) == ~StartIsoTime(r.payload).ok \/ ~DateCaseTime(r.payload).ok

\* a time source of a row, with an unparsable field counted as absent
Lenient(x) == IF x.ok THEN x ELSE SqlNull

LenientIn(r, lo, hi) ==
    LET a == Lenient(StartIsoTime(r.payload))
        b == Lenient(DateCaseTime(r.payload))
    IN  \/ ~IsNull(a) /\ Between(a.t, lo, hi)
        \/ ~IsNull(b) /\ Between(b.t, lo, hi)
        \/ Between(r.created_at, lo, hi)

LenientTime(r) ==
    LET a == Lenient(StartIsoTime(r.payload))
        b == Lenient(DateCaseTime(r.payload))
    IN  IF ~IsNull(a) THEN a.t ELSE IF ~IsNull(b) THEN b.t ELSE r.created_at

LenientResults(c) ==
    {Payloads(f) :
        f \in SortedBy({r \in c.execStore : LenientIn(r, c.arg[1], c.arg[2])},
                       [r \in c.execStore |-> LenientTime(r)])}

\* C10: a query over a store with a row whose time field is present and
\* unparsable raised no error (no connection was lost), and returned the
\* rows filtered and ordered by their times with the unparsable field
\* counted as absent.
C10_MalformedIsNoCandidate ==
    \A p \in Procs :
        (/\ last[p].op = "query"
         /\ last[p].fail \in {"none", "time"}
         /\ \E r \in last[p].execStore : Malformed(r))
        => /\ last[p].kind = "returned"
           /\ last[p].val \in LenientResults(last[p])

\* C11: the created_at-only retry is attempted only after a primary statement
\* that the server rejected for its time-filtering expression; after any
\* other failure of the primary statement (a lost connection, say) no retry
\* is attempted.
C11_RetryOnlyOnTimeRejection ==
    \A p \in Procs : pc[p] = "query_fallback" => call[p].fail = "time"

\* a query of p that returned what its primary statement selected
PrimaryReturned(p) ==
    last[p].op = "query" /\ last[p].kind = "returned" /\ last[p].fail = "none"

\* one of the three times of the row r lies in the closed window [lo, hi];
\* a source that is absent counts for nothing
AnyTimeIn(r, lo, hi) ==
    LET a == StartIsoTime(r.payload)
        b == DateCaseTime(r.payload)
    IN  \/ ~IsNull(a) /\ lo <= a.t /\ a.t <= hi
        \/ ~IsNull(b) /\ lo <= b.t /\ b.t <= hi
        \/ lo <= r.created_at /\ r.created_at <= hi

\* the payloads a query returned, as a set
Returned(c) == {c.val[i] : i \in 1..Len(c.val)}

\* C12: over a store whose time fields all parse, a query returns exactly
\* the rows with at least one of their three times (from start_iso8601, from
\* date, created_at) in the closed window [start, end].
C12_UnionOfTimeSources ==
    \A p \in Procs :
        (PrimaryReturned(p) /\ \A r \in last[p].execStore : ~Malformed(r))
        => LET c == last[p]
               hits == {r \in c.execStore : AnyTimeIn(r, c.arg[1], c.arg[2])}
           IN  /\ Returned(c) = {r.payload : r \in hits}
               /\ Len(c.val) = Cardinality(hits)

\* a query returned a row that only its date puts in the window, on the
\* window's first minute, and left out a row with no time in the window
C12_Witness ==
    \E p \in Procs :
        /\ PrimaryReturned(p)
        /\ \E r \in last[p].execStore :
              /\ r.payload \in Returned(last[p])
              /\ IsNull(StartIsoTime(r.payload))
              /\ DateCaseTime(r.payload) = TimeOk(last[p].arg[1])
              /\ r.created_at < last[p].arg[1]
        /\ \E r \in last[p].execStore : r.payload \notin Returned(last[p])

\* the start_iso8601 time of the row r lies in the closed window [lo, hi]
StartIn(r, lo, hi) ==
    LET a == StartIsoTime(r.payload) IN lo <= a.t /\ a.t <= hi

RowOf(rows, fetched) == CHOOSE r \in rows : r.payload = fetched.payload

\* the effective time of a row whose time fields parse, tier by tier
TierTime(r) ==
    LET s == JsonText(r.payload, "start_iso8601")
        d == JsonText(r.payload, "date")
    IN  IF s # None THEN CastTimestamptz(s.s).t
        ELSE IF d # None /\ Len(d.s) >= 5 /\ AllDigits(d.s, 1, 4) /\ d.s[5] = "-"
             THEN CastTimestamptz(d.s).t
        ELSE IF d # None /\ MatchesDmy(d.s)
             THEN DateMinutes(TextToNat(d.s, 7, 10), TextToNat(d.s, 4, 5), TextToNat(d.s, 1, 2))
        ELSE r.created_at

\* C14: for rows whose time fields parse, the event_time the primary
\* statement computes is the start_iso8601 time when the field is there;
\* else the time of date, read as an ISO date when it begins with four
\* digits and a hyphen and as day/month/year when it is DD/MM/YYYY
\* ('01/03/2024' is 1 March 2024); else created_at.
C14_EffectiveTimeTiers ==
    \A p \in Procs :
        (pc[p] = "query_exit" /\ call[p].fail = "none")
        => \A i \in 1..Len(cur[p].rows) :
              LET f == cur[p].rows[i]
                  r == RowOf(call[p].execStore, f)
              IN  /\ f.event_time = TierTime(r)
                  /\ f.payload = ToJsonb(EvN1) => f.event_time = DateMinutes(2024, 3, 1)

\* the statement gave 1 March 2024 to the row with date 01/03/2024 only, and
\* the start_iso8601 time to a row that carries both fields
C14_Witness ==
    \E p \in Procs :
        /\ pc[p] = "query_exit" /\ call[p].fail = "none"
        /\ \E i, j \in 1..Len(cur[p].rows) :
              /\ cur[p].rows[i] = [payload |-> ToJsonb(EvN1), event_time |-> Day1]
              /\ cur[p].rows[j].payload = ToJsonb(EvBoth)
              /\ cur[p].rows[j].event_time = Day2 + 480

\* the effective time of the row a returned payload came from: the first
\* there is of its start_iso8601 time, its date time and created_at
EffectiveTime(c, payload) ==
    LET r == CHOOSE x \in c.execStore : x.payload = payload
        a == StartIsoTime(payload)
        b == DateCaseTime(payload)
    IN  IF ~IsNull(a) THEN a.t ELSE IF ~IsNull(b) THEN b.t ELSE r.created_at

\* C15: the sequence a query returns from its primary statement is in
\* ascending order of the effective times of its rows, whichever time
\* source put a row in the window.
C15_SortedByEffectiveTime ==
    \A p \in Procs :
        PrimaryReturned(p)
        => \A i, j \in 1..Len(last[p].val) :
              i < j => EffectiveTime(last[p], last[p].val[i])
                       <= EffectiveTime(last[p], last[p].val[j])

\* a query returned two rows with different effective times, the first of
\* them in the window by its created_at only, with an effective time
\* before the window
C15_Witness ==
    \E p \in Procs :
        /\ PrimaryReturned(p)
        /\ Len(last[p].val) = 2
        /\ EffectiveTime(last[p], last[p].val[1]) < last[p].arg[1]
        /\ EffectiveTime(last[p], last[p].val[1]) < EffectiveTime(last[p], last[p].val[2])
        /\ \E r \in last[p].execStore :
              /\ r.payload = last[p].val[2]
              /\ r.created_at < last[p].arg[1]

\* a value that is there and is none of null, '', 0, false
Counts(ev, k) ==
    k \in KeysOf(ev) /\ Get(ev, k) \notin {None, JStr(<<>>), JInt(0), JBool(FALSE)}

\* C16: the identity key of a record is the string of the first of id,
\* event_id, url whose value is there and is none of null, '', 0, false, and
\* none when there is no such key; id 'A' with url 'B' gives 'A', and id '',
\* event_id None, url 'C' gives 'C'.
C16_IdentityPriority ==
    probe.stage = "identity"
    => LET ev == probe.a
       IN  /\ probe.key =
                 (IF Counts(ev, "id") THEN JStr(PyStr(Get(ev, "id")))
                  ELSE IF Counts(ev, "event_id") THEN JStr(PyStr(Get(ev, "event_id")))
                  ELSE IF Counts(ev, "url") THEN JStr(PyStr(Get(ev, "url")))
                  ELSE None)
           /\ ev = ExampleAB => probe.key = JStr(<<"A">>)
           /\ ev = ExampleC => probe.key = JStr(<<"C">>)

\* the key of a record with id 0, event_id false and url 5 is the string '5'
C16_Witness ==
    /\ probe.stage = "identity"
    /\ Get(probe.a, "id") = JInt(0)
    /\ Get(probe.a, "event_id") = JBool(FALSE)
    /\ Get(probe.a, "url") = JInt(5)
    /\ probe.key = JStr(<<"5">>)

\* C17: two records with the same keys and values, at every level, have the
\* same fingerprint whatever the order their keys were inserted in, and two
\* records that differ in a key or a value have different fingerprints.
C17_FingerprintDeterminism ==
    probe.stage \in {"reordered", "edited"}
    => (ToJsonb(probe.a) = ToJsonb(probe.b) <=> probe.ha = probe.hb)

\* the fingerprints of a record and of the same content with the keys of
\* the record and of its nested dict in another order
C17_Witness ==
    /\ probe.stage = "reordered"
    /\ Len(probe.a) >= 2
    /\ probe.a[1].k # probe.b[1].k
    /\ \E i, j \in 1..Len(probe.a) :
          /\ probe.a[i].v.t = "dict" /\ probe.b[j].v.t = "dict"
          /\ probe.a[i].v.items # probe.b[j].v.items
    /\ probe.ha = probe.hb

\* C18: a call of ensure_tables, on a database with or without the
\* structure and with or without rows, does not fail because the structure
\* exists, leaves the rows as they are, and when it returns the database has
\* the events table and its two unique indexes, each once.
C18_EnsureIdempotent ==
    [][\A p \in Procs :
          (pc[p] = "ensure" /\ pc'[p] = "idle")
          => /\ store' = store
             /\ last'[p].fail # "exists"
             /\ last'[p].kind = "returned" => schema' = AllObjects]_vars

\* ensure_tables returned on a database that had the structure and rows
C18_Witness ==
    \E p \in Procs :
        /\ last[p].op = "ensure" /\ last[p].kind = "returned"
        /\ last[p].startStore # {}
        /\ store = last[p].startStore
        /\ schema = AllObjects

\* C19: when a call of the store has returned or raised, the connection it
\* opened is closed: no process that is between calls holds a connection
\* that one of its ended calls opened.
C19_ConnectionsReleased ==
    \A p \in Procs : pc[p] = "idle" => ~unclosed[p]

\* a record of the feed as a mapping: its keys, each with its value
AsMapping(ev) == [k \in KeysOf(ev) |-> Get(ev, k)]

\* the row that the insert of the record ev made, if it is among rows
StoredFrom(rows, ev) == {r \in rows : r.event_hash = EventHash(ev)}

\* C20: a save that returned true stored its record as the payload of its
\* row; every query (no connection was lost) returns, and gives for every
\* record of the feed whose row is stored and in the window an element
\* equal to the record as a mapping, and every element it gives is such a
\* record and nothing else: no id, no event_id, no event_hash, no
\* created_at, no event_time of the row.
C20_PayloadRoundTrip ==
    \A p \in Procs :
        /\ (SaveReturned(last[p]) /\ last[p].val)
           => \E r \in store : r.id = last[p].rowid /\ r.payload = AsMapping(last[p].arg)
        /\ (last[p].op = "query" /\ last[p].fail \in {"none", "time"})
           => LET c == last[p]
              IN  /\ c.kind = "returned"
                  /\ \A ev \in scenario.feed :
                        \A r \in StoredFrom(c.execStore, ev) :
                            LenientIn(r, c.arg[1], c.arg[2]) => AsMapping(ev) \in Returned(c)
                  /\ \A i \in 1..Len(c.val) :
                        \E ev \in scenario.feed :
                            /\ c.val[i] = AsMapping(ev)
                            /\ StoredFrom(c.execStore, ev) # {}

\* the messages that were handed to send_message so far
Messages == BagToSet(bot.sent)

\* C21: over any number of poll_events runs, one after another or at the
\* same time, every message was sent by the run in which save_event_if_new
\* returned true for its event (so a run that got false for an event sent
\* nothing for it), and every stored event was announced at most once.
C21_AnnouncedOnceByInserter ==
    /\ \A m \in Messages :
          /\ [p |-> m.p, n |-> m.n, ev |-> m.ev] \in bot.news
          /\ CopiesIn(m, bot.sent) = 1
    /\ \A r \in store :
          Cardinality({m \in Messages : EventHash(m.ev) = r.event_hash}) <= 1

\* two runs at the same time met the same event: one announced it, the
\* other one got false for it
C21_Witness ==
    /\ scenario = PollTwice
    /\ \E m \in Messages : \E q \in Procs \ {m.p} :
          /\ SaveReturned(last[q]) /\ ~last[q].val
          /\ last[q].arg = m.ev
          /\ bot.run[q].stage = "off"

\* the events of new_events of run r are those for which the call returned true
NewOf(r) ==
    LET news == {k \in 1..Len(r.results) : r.results[k].outcome = "new"}
    IN  /\ Len(r.new_events) = Cardinality(news)
        /\ \A k \in news : \E l \in 1..Len(r.new_events) : r.new_events[l] = r.results[k].ev

\* C22: when save_event_if_new raises for a record of the batch, the record
\* is not added to new_events, the loop of save_events_to_db goes on: the
\* records were passed to save_event_if_new one by one in the order of the
\* batch, the next one after an error as after a return, and the loop ends
\* only after the last record of the batch.
C22_RaiseSkipsOneRecord ==
    [][\A p \in Procs :
          LET r == bot.run[p]
              r2 == bot'.run[p]
          IN  /\ (r.stage = "await" /\ r2 # r) =>
                    /\ last[p].op = "save" /\ last[p].arg = r.events[r.i]
                    /\ r2.stage = "loop"
                    /\ r2.i = r.i + 1
                    /\ Len(r2.results) = r.i /\ r2.results[r.i].ev = r.events[r.i]
                    /\ NewOf(r2)
                    /\ last[p].kind = "raised" =>
                          /\ r2.new_events = r.new_events
                          /\ bot'.news = bot.news
              /\ (r.stage = "loop" /\ r2.stage = "await") =>
                    call'[p].arg = r.events[r.i]
              /\ (r.stage = "loop" /\ r2.stage \notin {"loop", "await"}) =>
                    r.i = Len(r.events) + 1]_vars

\* the call raised for the first record of a batch, and the second record
\* was passed and found new
C22_Witness ==
    \E p \in Procs :
        /\ bot.run[p].stage = "loop"
        /\ Len(bot.run[p].results) = 2
        /\ bot.run[p].results[1].outcome = "raised"
        /\ bot.run[p].results[2].outcome = "new"
        /\ bot.run[p].new_events = <<bot.run[p].events[2]>>

\* the outcomes that run r has taken so far for the event ev
OutcomesFor(r, ev) ==
    {r.results[k].outcome : k \in {l \in 1..Len(r.results) : r.results[l].ev = ev}}

\* C23: a message that send_message failed to deliver is not sent again:
\* the row of its event stays in the store, it was handed to send_message
\* once and no other message for the event exists, in no other run did
\* save_event_if_new return true for the event, and in a later run the call
\* for it returns false unless the call itself fails.
C23_NoRetryAfterFailedSend ==
    \A m \in Messages :
        ~m.ok =>
            /\ StoredFrom(store, m.ev) # {}
            /\ CopiesIn(m, bot.sent) = 1
            /\ \A m2 \in Messages : m2.ev = m.ev => m2 = m
            /\ \A x \in bot.news : x.ev = m.ev => (x.p = m.p /\ x.n = m.n)
            /\ \A p \in Procs :
                  (bot.run[p].stage \in {"loop", "await"} /\ bot.run[p].n # m.n) =>
                      /\ "new" \notin OutcomesFor(bot.run[p], m.ev)
                      /\ (/\ bot.run[p].n > m.n
                          /\ bot.run[p].stage = "loop" /\ bot.run[p].i > 1
                          /\ last[p].arg = m.ev /\ last[p].fail = "none")
                         => (SaveReturned(last[p]) /\ ~last[p].val)

\* the message of an event was not delivered; a later run met the event
\* again and save_event_if_new returned false for it
C23_Witness ==
    \E m \in Messages : \E p \in Procs :
        /\ ~m.ok
        /\ bot.run[p].stage = "loop"
        /\ bot.run[p].n > m.n
        /\ "old" \in OutcomesFor(bot.run[p], m.ev)
        /\ StoredFrom(store, m.ev) # {}

\* pairs of records whose first truthy value among id, event_id, url has
\* the same text: the number 5 and the text "5" as id, the text "X" as id
\* and as url of a record without id
AlikePairs ==
    {<<EvId5, EvId5Text>>, <<EvId5Text, EvId5>>, <<EvIdX, EvUrlX>>, <<EvUrlX, EvIdX>>}

\* C24: the identity key is the text of the chosen value alone: the records
\* of a pair have the same key, "5" or "X", whatever field or type it came
\* from, and a save of one that began when the row of the other was stored
\* and that returned, returned false.
C24_KeyIsBareText ==
    /\ IdentityKey(EvId5) = JStr(<<"5">>) /\ IdentityKey(EvId5Text) = JStr(<<"5">>)
    /\ IdentityKey(EvIdX) = JStr(<<"X">>) /\ IdentityKey(EvUrlX) = JStr(<<"X">>)
    /\ \A r \in store :
          /\ r.event_hash \in {EventHash(EvId5), EventHash(EvId5Text)} => r.event_id = JStr(<<"5">>)
          /\ r.event_hash \in {EventHash(EvIdX), EventHash(EvUrlX)} => r.event_id = JStr(<<"X">>)
    /\ \A p \in Procs : \A pair \in AlikePairs :
          (/\ SaveReturned(last[p])
           /\ last[p].arg = pair[2]
           /\ StoredFrom(last[p].startStore, pair[1]) # {})
          => ~last[p].val

\* the record with the number 5 as id is stored, the record with the text
\* "5" as id is not; a save of the latter returned false
C24_Witness ==
    \E p \in Procs :
        /\ SaveReturned(last[p]) /\ ~last[p].val
        /\ last[p].arg = EvId5Text
        /\ StoredFrom(last[p].startStore, EvId5) # {}
        /\ StoredFrom(store, EvId5Text) = {}

====
